---------------------------- MODULE Spec2Model ----------------------------
(***************************************************************************)
(* VocabPop (src/src/main.rs): the rotation scheduler of main(), the       *)
(* "show now" channel, the Ctrl-C flag and the inlined entry formatting.   *)
(*                                                                         *)
(* A String is a sequence of characters, a character a one-token string;   *)
(* the em dash (U+2014) is the token "U+2014".  An Option<T> is a          *)
(* sequence of length at most one: None is << >>, Some(v) is << v >>.      *)
(***************************************************************************)
EXTENDS Integers, Sequences, FiniteSets, TLC

VARIABLES
    pc,                 \* position of the main thread in main()
    args,               \* Args: [interval, force, shuffle]
    entries,            \* Vec<Entry> held by main()
    running,            \* the AtomicBool behind `running`
    rx,                 \* number of () messages queued in the mpsc channel
    idx,                \* the usize cursor
    slept,              \* the u64 tick counter of the wait loop
    shown,              \* the calls made to show_notification, in order
    message,            \* the line main() printed about its own ending
    trigger,            \* history: what happened since the previous show
    fresh,              \* history: a send happened since the last Ok of try_recv
    cancelAt,           \* history: pc at which running was first set false
    ticksSinceCancel,   \* history: sleeps finished since running became false
    showsSinceCancel,   \* history: shows made since running became false
    sigTicks,           \* history: sleeps finished while a signal was queued
    waited,             \* history: sigTicks of the signal taken for the coming show
    consumed,           \* history: try_recv calls that returned Ok
    expired,            \* history: waits that ran until slept reached the interval
    file                \* the text read from one vocabulary file (parse_vocab_file)

vars == << pc, args, file, entries, running, rx, idx, slept, shown, message,
           trigger, fresh, cancelAt, ticksSinceCancel,
           showsSinceCancel, sigTicks, waited, consumed, expired >>

---------------------------------------------------------------------------
(* Bounds of the model *)

MaxEntries == 2
MaxShows == 4
MaxPending == 2
UsizeBits == 4
U64Bits == 8
FieldVariants == 2
MaxTextLen == 5

(* Program constants *)

DefaultInterval == 1
SecsPerMinute == 60
TickSecs == 1

UsizeModulus == 2 ^ UsizeBits
U64Modulus == 2 ^ U64Bits

---------------------------------------------------------------------------
(* Option<String> *)

None == << >>
Some(v) == << v >>
IsSome(o) == Len(o) = 1
Unwrap(o) == o[1]

(* The string literals of the body construction *)

EmDash == << " ", "U+2014", " " >>
OpenParen == << " ", "(" >>
CloseParen == << ")" >>

---------------------------------------------------------------------------
(* Entry formatting: the three inlined copies *)

FormatForce(e) ==
    LET b0 == << >>
        b1 == IF IsSome(e.reading) THEN b0 \o Unwrap(e.reading) ELSE b0
        b2 == IF IsSome(e.meaning)
              THEN (IF b1 # << >> THEN b1 \o EmDash ELSE b1) \o Unwrap(e.meaning)
              ELSE b1
        b3 == IF IsSome(e.codes) /\ Unwrap(e.codes) # << >>
              THEN b2 \o OpenParen \o Unwrap(e.codes) \o CloseParen
              ELSE b2
    IN  [title |-> e.word, body |-> b3]

FormatSignal(e) ==
    LET b0 == << >>
        b1 == IF IsSome(e.reading) THEN b0 \o Unwrap(e.reading) ELSE b0
        b2 == IF IsSome(e.meaning)
              THEN (IF b1 # << >> THEN b1 \o EmDash ELSE b1) \o Unwrap(e.meaning)
              ELSE b1
        b3 == IF IsSome(e.codes) /\ Unwrap(e.codes) # << >>
              THEN b2 \o OpenParen \o Unwrap(e.codes) \o CloseParen
              ELSE b2
    IN  [title |-> e.word, body |-> b3]

\* a body that puts the separator before every meaning
FormatIntervalAlwaysDash(e) ==
    LET b0 == << >>
        b1 == IF IsSome(e.reading) THEN b0 \o Unwrap(e.reading) ELSE b0
        b2 == IF IsSome(e.meaning) THEN b1 \o EmDash \o Unwrap(e.meaning) ELSE b1
        b3 == IF IsSome(e.codes) /\ Unwrap(e.codes) # << >>
              THEN b2 \o OpenParen \o Unwrap(e.codes) \o CloseParen
              ELSE b2
    IN  [title |-> e.word, body |-> b3]

FormatInterval(e) ==
    LET b0 == << >>
        b1 == IF IsSome(e.reading) THEN b0 \o Unwrap(e.reading) ELSE b0
        b2 == IF IsSome(e.meaning)
              THEN (IF b1 # << >> THEN b1 \o EmDash ELSE b1) \o Unwrap(e.meaning)
              ELSE b1
        b3 == IF IsSome(e.codes) /\ Unwrap(e.codes) # << >>
              THEN b2 \o OpenParen \o Unwrap(e.codes) \o CloseParen
              ELSE b2
    IN  [title |-> e.word, body |-> b3]

---------------------------------------------------------------------------
(* What load_vocab can return: the entries parse_vocab_file builds, which   *)
(* have a non-empty word and optional fields that are absent or non-empty. *)

Letters == << "a", "b", "c", "d", "e", "f" >>
Letter(i) == Letters[((i - 1) % Len(Letters)) + 1]

VocabEntry(i) ==
    [ word    |-> << "w", Letter(i) >>,
      reading |-> IF i % 2 = 1 THEN Some(<< "r", Letter(i) >>) ELSE None,
      meaning |-> IF i % 3 # 0 THEN Some(<< "m", Letter(i) >>) ELSE None,
      codes   |-> IF i % 4 >= 2 THEN Some(<< "N", "5" >>) ELSE None ]

Vocabulary(n) == [i \in 1..n |-> VocabEntry(i)]

LoadedVocabularies == { Vocabulary(n) : n \in 0..MaxEntries }

(* Every Entry the parser can build over a small alphabet: a word of 1 to   *)
(* FieldVariants characters and, per optional field, None or such a string *)
Str(c, n) == [i \in 1..n |-> c]
OptStrs(c) == { None } \cup { Some(Str(c, n)) : n \in 1..FieldVariants }

ParsedEntries ==
    [ word    : { Str("w", n) : n \in 1..FieldVariants },
      reading : OptStrs("r"),
      meaning : OptStrs("m"),
      codes   : OptStrs("c") ]

---------------------------------------------------------------------------
(* parse_vocab_file: the text of a file is a sequence of characters        *)

Chars == { "a", " ", "\t", "#", "\n" }

Texts == UNION { [1..n -> Chars] : n \in 0..MaxTextLen }

\* char::is_whitespace, on the characters of the model
IsWhite(c) == c \in { " ", "\t", "\n" }

RECURSIVE TrimStart(_)
TrimStart(s) ==
    IF s # << >> /\ IsWhite(Head(s)) THEN TrimStart(Tail(s)) ELSE s

RECURSIVE TrimEnd(_)
TrimEnd(s) ==
    IF s # << >> /\ IsWhite(s[Len(s)])
    THEN TrimEnd(SubSeq(s, 1, Len(s) - 1))
    ELSE s

\* str::trim
Trim(s) == TrimEnd(TrimStart(s))

\* str::split(c): the pieces between the occurrences of c, at least one
RECURSIVE SplitOn(_, _)
SplitOn(s, c) ==
    IF \A i \in 1..Len(s) : s[i] # c
    THEN << s >>
    ELSE LET i == CHOOSE j \in 1..Len(s) :
                      s[j] = c /\ \A h \in 1..(j - 1) : s[h] # c
         IN  << SubSeq(s, 1, i - 1) >> \o SplitOn(SubSeq(s, i + 1, Len(s)), c)

\* str::lines: split at the newlines, without an empty last line
Lines(text) ==
    LET parts == SplitOn(text, "\n")
    IN  IF parts[Len(parts)] = << >>
        THEN SubSeq(parts, 1, Len(parts) - 1)
        ELSE parts

\* parts.get(i), i counted from 0
Get(parts, i) == IF i < Len(parts) THEN Some(parts[i + 1]) ELSE None

\* parts.get(i).map(|s| s.trim().to_string()).filter(|s| !s.is_empty())
OptField(parts, i) ==
    LET o == Get(parts, i)
    IN  IF IsSome(o) /\ Trim(Unwrap(o)) # << >> THEN Some(Trim(Unwrap(o))) ELSE None

\* one iteration of the for loop (lines 45-58): the entries pushed for a line
ParseLine(raw) ==
    LET line == Trim(raw)
    IN  IF line = << >> \/ Head(line) = "#"
        THEN << >>
        ELSE LET parts == SplitOn(line, "\t")
                 word == IF IsSome(Get(parts, 0)) THEN Trim(Unwrap(Get(parts, 0)))
                         ELSE << >>
             IN  IF word = << >>
                 THEN << >>
                 ELSE << [ word    |-> word,
                           reading |-> OptField(parts, 1),
                           meaning |-> OptField(parts, 2),
                           codes   |-> OptField(parts, 3) ] >>

RECURSIVE ParseLines(_)
ParseLines(ls) ==
    IF ls = << >> THEN << >> ELSE ParseLine(Head(ls)) \o ParseLines(Tail(ls))

\* parse_vocab_file on a file that could be read
ParseVocabFile(text) == ParseLines(Lines(text))

(* Every value of the type Entry over a small alphabet: as ParsedEntries,   *)
(* and an optional field may also hold the empty string                    *)
AnyOptStrs(c) == { None } \cup { Some(Str(c, n)) : n \in 0..FieldVariants }

AnyEntries ==
    [ word    : { Str("w", n) : n \in 0..FieldVariants },
      reading : AnyOptStrs("r"),
      meaning : AnyOptStrs("m"),
      codes   : AnyOptStrs("c") ]

(* entries.shuffle(&mut rng): any permutation of the vector *)
Shuffles(v) ==
    { [i \in 1..Len(v) |-> v[p[i]]] : p \in Permutations(1..Len(v)) }

ArgsSet ==
    [ interval : { DefaultInterval }, force : BOOLEAN, shuffle : BOOLEAN ]

(* --interval <u64>: the positive values up to the first whose product with *)
(* 60 leaves the range of u64                                              *)
IntervalMinutes == 1..((U64Modulus \div SecsPerMinute) + 1)

---------------------------------------------------------------------------
(* Small pieces of main() *)

\* a load that never reports an empty vector
IsEmptyVecNever(v) == FALSE

\* entries.is_empty()
IsEmptyVec(v) == Len(v) = 0

\* idx % entries.len(), as a 1-based position of the sequence
EntryAt(i) == entries[(i % Len(entries)) + 1]
CursorPos(i) == i % Len(entries)

\* a cursor that skips an entry at every advance
WrappingAdd2(i) == (i + 2) % UsizeModulus

\* idx.wrapping_add(1)
WrappingAdd1(i) == (i + 1) % UsizeModulus

\* args.interval * 60 leaves the range of u64
IntervalOverflows == args.interval * SecsPerMinute >= U64Modulus

\* interval.as_secs() of Duration::from_secs(args.interval * 60), the u64
\* product as a build without overflow checks computes it
IntervalSecs == (args.interval * SecsPerMinute) % U64Modulus

\* slept < interval.as_secs(): the left operand of the wait loop's condition
WaitMore == slept < IntervalSecs

\* a loop that does not look at the flag
LoopCondAlways == TRUE

\* running.load(..), the condition of the outer while
LoopCond == running

\* a wait that does not look at the flag
WaitCondNoFlag == WaitMore

\* a wait whose test of the flag is negated
WaitCondNegated == WaitMore /\ ~running

\* slept < interval.as_secs() && running.load(..)
WaitCond == WaitMore /\ running

WaitingPcs == { "wait_check", "wait_recv", "sleep" }
LivePcs == { "branch", "loop_top", "top_recv", "show_sig", "adv_sig",
             "show_int", "adv_int", "wait_check", "wait_recv", "sleep" }

Payload(pos, p) == [pos |-> pos, title |-> p.title, body |-> p.body]

---------------------------------------------------------------------------
Init ==
    /\ pc = "load"
    /\ args \in ArgsSet
    /\ file = << >>
    /\ entries = << >>
    /\ running = TRUE
    /\ rx = 0
    /\ idx = 0
    /\ slept = 0
    /\ shown = << >>
    /\ message = "none"
    /\ trigger = "start"
    /\ fresh = FALSE
    /\ cancelAt = "none"
    /\ ticksSinceCancel = 0
    /\ showsSinceCancel = 0
    /\ sigTicks = 0
    /\ waited = 0
    /\ consumed = 0
    /\ expired = 0

history == << trigger, fresh, cancelAt, ticksSinceCancel,
              showsSinceCancel, sigTicks, waited, consumed, expired >>

(* main.rs 101-105: load the vocabulary, give up when it is empty *)
Load ==
    /\ pc = "load"
    /\ \E v \in LoadedVocabularies :
          /\ entries' = v
          /\ IF IsEmptyVec(v)
             THEN pc' = "exited" /\ message' = "No vocab entries found"
             ELSE pc' = "shuffle" /\ message' = message
    /\ UNCHANGED << args, file, running, rx, idx, slept, shown, history >>

(* main.rs 107-110 *)
Shuffle ==
    /\ pc = "shuffle"
    /\ IF args.shuffle
       THEN entries' \in Shuffles(entries)
       ELSE entries' = entries
    /\ pc' = "setup"
    /\ UNCHANGED << args, file, running, rx, idx, slept, shown, message, history >>

(* main.rs 112-151: the flag, the Ctrl-C handler, the channel, idx = 0 *)
Setup ==
    /\ pc = "setup"
    /\ running' = TRUE
    /\ rx' = 0
    /\ idx' = 0
    /\ pc' = "branch"
    /\ UNCHANGED << args, file, entries, slept, shown, message, history >>

\* the force branch without its return: it falls into the loop
ForceShowNoReturn ==
    /\ pc = "branch"
    /\ args.force
    /\ shown' = Append(shown, Payload(CursorPos(idx), FormatForce(EntryAt(idx))))
    /\ showsSinceCancel' = IF running THEN showsSinceCancel ELSE showsSinceCancel + 1
    /\ pc' = "loop_top"
    /\ UNCHANGED << args, file, entries, running, rx, idx, slept, message, trigger,
                    fresh, cancelAt, ticksSinceCancel, sigTicks,
                    waited, consumed, expired >>

(* main.rs 153-162: --force shows one notification and returns *)
ForceShow ==
    /\ pc = "branch"
    /\ args.force
    /\ shown' = Append(shown, Payload(CursorPos(idx), FormatForce(EntryAt(idx))))
    /\ showsSinceCancel' = IF running THEN showsSinceCancel ELSE showsSinceCancel + 1
    /\ pc' = "exited"
    /\ UNCHANGED << args, file, entries, running, rx, idx, slept, message, trigger,
                    fresh, cancelAt, ticksSinceCancel, sigTicks,
                    waited, consumed, expired >>

(* main.rs 153, 164: not --force, compute the interval and go on to the     *)
(* loop; when the u64 product overflows, a build with overflow checks      *)
(* panics there and a build without them goes on with the wrapped value    *)
EnterLoop ==
    /\ pc = "branch"
    /\ ~args.force
    /\ pc' \in IF IntervalOverflows THEN { "panicked", "loop_top" } ELSE { "loop_top" }
    /\ UNCHANGED << args, file, entries, running, rx, idx, slept, shown, message, history >>

(* main.rs 165: while running.load(..); 196 when it reads false *)
LoopTop ==
    /\ pc = "loop_top"
    /\ IF LoopCond
       THEN /\ Len(shown) < MaxShows
            /\ pc' = "top_recv"
            /\ message' = message
       ELSE /\ pc' = "stopped"
            /\ message' = "Exiting VocabPop."
    /\ UNCHANGED << args, file, entries, running, rx, idx, slept, shown, history >>

\* the history kept when try_recv returns Ok
Taken ==
    /\ trigger' = IF fresh THEN "signal" ELSE "signal_again"
    /\ fresh' = FALSE
    /\ waited' = sigTicks
    /\ sigTicks' = IF rx' = 0 THEN 0 ELSE sigTicks
    /\ consumed' = consumed + 1

(* main.rs 167: rx.try_recv() at the top of an iteration *)
TopRecv ==
    /\ pc = "top_recv"
    /\ IF rx > 0
       THEN /\ rx' = rx - 1
            /\ Taken
            /\ pc' = "show_sig"
       ELSE /\ UNCHANGED << rx, trigger, fresh, sigTicks, waited, consumed >>
            /\ pc' = "show_int"
    /\ UNCHANGED << args, file, entries, running, idx, slept, shown, message,
                    cancelAt, ticksSinceCancel, showsSinceCancel, expired >>

\* the history kept at every call of show_notification in the loop
Shown(after) ==
    /\ showsSinceCancel' = IF running THEN showsSinceCancel ELSE showsSinceCancel + 1
    /\ trigger' = after
    /\ UNCHANGED << fresh, cancelAt, ticksSinceCancel, sigTicks, waited,
                    consumed, expired >>

(* main.rs 168-174: the signal branch formats and shows *)
ShowSignal ==
    /\ pc = "show_sig"
    /\ shown' = Append(shown, Payload(CursorPos(idx), FormatSignal(EntryAt(idx))))
    /\ Shown("after_sig")
    /\ pc' = "adv_sig"
    /\ UNCHANGED << args, file, entries, running, rx, idx, slept, message >>

\* a signal branch that goes on to the wait after its show
AdvanceSignalThenWait ==
    /\ pc = "adv_sig"
    /\ idx' = WrappingAdd1(idx)
    /\ slept' = 0
    /\ waited' = 0
    /\ pc' = "wait_check"
    /\ UNCHANGED << args, file, entries, running, rx, shown, message, trigger,
                    fresh, cancelAt, ticksSinceCancel, showsSinceCancel, sigTicks,
                    consumed, expired >>

(* main.rs 175 *)
AdvanceSignal ==
    /\ pc = "adv_sig"
    /\ idx' = WrappingAdd1(idx)
    /\ waited' = 0
    /\ pc' = "loop_top"
    /\ UNCHANGED << args, file, entries, running, rx, slept, shown, message, trigger,
                    fresh, cancelAt, ticksSinceCancel, showsSinceCancel, sigTicks,
                    consumed, expired >>

(* main.rs 177-183: the interval branch formats and shows *)
ShowInterval ==
    /\ pc = "show_int"
    /\ shown' = Append(shown, Payload(CursorPos(idx), FormatInterval(EntryAt(idx))))
    /\ Shown("after_int")
    /\ pc' = "adv_int"
    /\ UNCHANGED << args, file, entries, running, rx, idx, slept, message >>

(* main.rs 184-185 *)
AdvanceInterval ==
    /\ pc = "adv_int"
    /\ idx' = WrappingAdd1(idx)
    /\ slept' = 0
    /\ waited' = 0
    /\ pc' = "wait_check"
    /\ UNCHANGED << args, file, entries, running, rx, shown, message, trigger,
                    fresh, cancelAt, ticksSinceCancel, showsSinceCancel, sigTicks,
                    consumed, expired >>

(* main.rs 186: slept < interval.as_secs() && running.load(..) *)
WaitCheck ==
    /\ pc = "wait_check"
    /\ IF WaitCond
       THEN /\ pc' = "wait_recv"
            /\ UNCHANGED << slept, trigger, expired >>
       ELSE /\ pc' = "loop_top"
            /\ slept' = 0       \* the block's local goes out of scope
            /\ trigger' = IF ~WaitMore /\ trigger = "after_int" THEN "expiry"
                           ELSE trigger
            /\ expired' = IF ~WaitMore THEN expired + 1 ELSE expired
    /\ UNCHANGED << args, file, entries, running, rx, idx, shown, message,
                    fresh, cancelAt, ticksSinceCancel,
                    showsSinceCancel, sigTicks, waited, consumed >>

\* a wait that sleeps without polling the channel
WaitRecvNoPoll ==
    /\ pc = "wait_recv"
    /\ pc' = "sleep"
    /\ UNCHANGED << args, file, entries, running, rx, idx, slept, shown, message, history >>

(* main.rs 188-190: rx.try_recv() inside the wait; Ok breaks the wait *)
WaitRecv ==
    /\ pc = "wait_recv"
    /\ IF rx > 0
       THEN /\ rx' = rx - 1
            /\ Taken
            /\ slept' = 0       \* break: the block's local goes out of scope
            /\ pc' = "loop_top"
       ELSE /\ UNCHANGED << rx, trigger, fresh, sigTicks, waited, consumed, slept >>
            /\ pc' = "sleep"
    /\ UNCHANGED << args, file, entries, running, idx, shown, message,
                    cancelAt, ticksSinceCancel, showsSinceCancel, expired >>

\* a sleep that does not count its tick
SleepNoCount ==
    /\ pc = "sleep"
    /\ slept' = slept
    /\ ticksSinceCancel' = IF running THEN ticksSinceCancel ELSE ticksSinceCancel + 1
    /\ sigTicks' = IF rx > 0 THEN sigTicks + 1 ELSE 0
    /\ pc' = "wait_check"
    /\ UNCHANGED << args, file, entries, running, rx, idx, shown, message, trigger,
                    fresh, cancelAt, showsSinceCancel, waited,
                    consumed, expired >>

(* main.rs 191-192: thread::sleep(1 s); slept += 1 *)
Sleep ==
    /\ pc = "sleep"
    /\ slept' = slept + TickSecs
    /\ ticksSinceCancel' = IF running THEN ticksSinceCancel ELSE ticksSinceCancel + 1
    /\ sigTicks' = IF rx > 0 THEN sigTicks + 1 ELSE 0
    /\ pc' = "wait_check"
    /\ UNCHANGED << args, file, entries, running, rx, idx, shown, message, trigger,
                    fresh, cancelAt, showsSinceCancel, waited,
                    consumed, expired >>

(* main.rs 114-116: the Ctrl-C handler, on its own thread *)
CtrlC ==
    /\ pc \in LivePcs
    /\ running' = FALSE
    /\ cancelAt' = IF running THEN pc ELSE cancelAt
    /\ UNCHANGED << pc, args, file, entries, rx, idx, slept, shown, message, trigger,
                    fresh, ticksSinceCancel, showsSinceCancel,
                    sigTicks, waited, consumed, expired >>

(* main.rs 120, 126, 140: a holder of the Sender sends () *)
Send ==
    /\ pc \in LivePcs
    /\ rx < MaxPending
    /\ rx' = rx + 1
    /\ fresh' = TRUE
    /\ UNCHANGED << pc, args, file, entries, running, idx, slept, shown, message,
                    trigger, cancelAt, ticksSinceCancel,
                    showsSinceCancel, sigTicks, waited, consumed, expired >>

MainThread ==
    \/ Load
    \/ Shuffle
    \/ Setup
    \/ ForceShow
    \/ EnterLoop
    \/ LoopTop
    \/ TopRecv
    \/ ShowSignal
    \/ AdvanceSignal
    \/ ShowInterval
    \/ AdvanceInterval
    \/ WaitCheck
    \/ WaitRecv
    \/ Sleep

Next == MainThread \/ CtrlC \/ Send

Spec == Init /\ [][Next]_vars

(* The main thread is a running OS thread: it takes its next step. *)
FairSpec == Spec /\ WF_vars(MainThread)

(* The formatting alone: one parsed entry, at one of the three places that  *)
(* format and show it.                                                     *)
InitFormat ==
    /\ pc \in { "branch", "show_sig", "show_int" }
    /\ args = [ interval |-> DefaultInterval, force |-> (pc = "branch"), shuffle |-> FALSE ]
    /\ file = << >>
    /\ \E e \in ParsedEntries : entries = << e >>
    /\ running = TRUE
    /\ rx = 0
    /\ idx = 0
    /\ slept = 0
    /\ shown = << >>
    /\ message = "none"
    /\ trigger = IF pc = "show_sig" THEN "signal" ELSE "start"
    /\ fresh = FALSE
    /\ cancelAt = "none"
    /\ ticksSinceCancel = 0
    /\ showsSinceCancel = 0
    /\ sigTicks = 0
    /\ waited = 0
    /\ consumed = IF pc = "show_sig" THEN 1 ELSE 0
    /\ expired = 0

NextFormat == ForceShow \/ ShowSignal \/ ShowInterval

SpecFormat == InitFormat /\ [][NextFormat]_vars

(* The wait alone: main() after its set-up (lines 101-151) without --force, *)
(* one entry loaded, for each value of --interval.                         *)
InitTiming ==
    /\ pc = "branch"
    /\ args \in [ interval : IntervalMinutes, force : { FALSE }, shuffle : { FALSE } ]
    /\ file = << >>
    /\ entries = Vocabulary(1)
    /\ running = TRUE
    /\ rx = 0
    /\ idx = 0
    /\ slept = 0
    /\ shown = << >>
    /\ message = "none"
    /\ trigger = "start"
    /\ fresh = FALSE
    /\ cancelAt = "none"
    /\ ticksSinceCancel = 0
    /\ showsSinceCancel = 0
    /\ sigTicks = 0
    /\ waited = 0
    /\ consumed = 0
    /\ expired = 0

NextTiming ==
    \/ EnterLoop
    \/ LoopTop
    \/ TopRecv
    \/ ShowSignal
    \/ AdvanceSignal
    \/ ShowInterval
    \/ AdvanceInterval
    \/ WaitCheck
    \/ WaitRecv
    \/ Sleep
    \/ CtrlC
    \/ Send

SpecTiming == InitTiming /\ [][NextTiming]_vars

(* The loop when the cursor is about to wrap: main() at the top of the loop *)
(* after so many shows that idx is one or two below usize::MAX, with the   *)
(* notifications recorded from there on.                                   *)
InitWrap ==
    /\ pc = "loop_top"
    /\ args = [ interval |-> DefaultInterval, force |-> FALSE, shuffle |-> FALSE ]
    /\ file = << >>
    /\ entries \in { Vocabulary(n) : n \in 1..(MaxEntries + 1) }
    /\ running = TRUE
    /\ rx = 0
    /\ idx \in { UsizeModulus - 2, UsizeModulus - 1 }
    /\ slept = 0
    /\ shown = << >>
    /\ message = "none"
    /\ trigger = "expiry"
    /\ fresh = FALSE
    /\ cancelAt = "none"
    /\ ticksSinceCancel = 0
    /\ showsSinceCancel = 0
    /\ sigTicks = 0
    /\ waited = 0
    /\ consumed = 0
    /\ expired = 0

NextWrap ==
    \/ LoopTop
    \/ TopRecv
    \/ ShowSignal
    \/ AdvanceSignal
    \/ ShowInterval
    \/ AdvanceInterval
    \/ WaitCheck
    \/ WaitRecv
    \/ Sleep
    \/ CtrlC
    \/ Send

SpecWrap == InitWrap /\ [][NextWrap]_vars

(* parse_vocab_file alone, on every short text *)
InitParse ==
    /\ pc = "parse"
    /\ args = [ interval |-> DefaultInterval, force |-> FALSE, shuffle |-> FALSE ]
    /\ file \in Texts
    /\ entries = << >>
    /\ running = TRUE
    /\ rx = 0
    /\ idx = 0
    /\ slept = 0
    /\ shown = << >>
    /\ message = "none"
    /\ trigger = "start"
    /\ fresh = FALSE
    /\ cancelAt = "none"
    /\ ticksSinceCancel = 0
    /\ showsSinceCancel = 0
    /\ sigTicks = 0
    /\ waited = 0
    /\ consumed = 0
    /\ expired = 0

(* main.rs 38-61: read_to_string fails and nothing is returned, or the     *)
(* text is parsed line by line                                             *)
ParseFile ==
    /\ pc = "parse"
    /\ \E readable \in BOOLEAN :
          /\ entries' = IF readable THEN ParseVocabFile(file) ELSE << >>
          /\ pc' = IF readable THEN "parsed" ELSE "unreadable"
    /\ UNCHANGED << args, file, running, rx, idx, slept, shown, message, history >>

NextParse == ParseFile

SpecParse == InitParse /\ [][NextParse]_vars

(* The three formatting sites on any value of the type Entry *)
InitEquiv ==
    /\ pc \in { "branch", "show_sig", "show_int" }
    /\ args = [ interval |-> DefaultInterval, force |-> (pc = "branch"), shuffle |-> FALSE ]
    /\ file = << >>
    /\ \E e \in AnyEntries : entries = << e >>
    /\ running = TRUE
    /\ rx = 0
    /\ idx = 0
    /\ slept = 0
    /\ shown = << >>
    /\ message = "none"
    /\ trigger = IF pc = "show_sig" THEN "signal" ELSE "start"
    /\ fresh = FALSE
    /\ cancelAt = "none"
    /\ ticksSinceCancel = 0
    /\ showsSinceCancel = 0
    /\ sigTicks = 0
    /\ waited = 0
    /\ consumed = IF pc = "show_sig" THEN 1 ELSE 0
    /\ expired = 0

SpecEquiv == InitEquiv /\ [][NextFormat]_vars

TypeOK ==
    /\ pc \in LivePcs \cup { "load", "shuffle", "setup", "exited", "stopped",
                          "panicked", "parse", "parsed", "unreadable" }
    /\ args \in [ interval : IntervalMinutes, force : BOOLEAN, shuffle : BOOLEAN ]
    /\ running \in BOOLEAN
    /\ rx \in 0..MaxPending
    /\ idx \in 0..(UsizeModulus - 1)
    /\ slept \in 0..IntervalSecs
    /\ Len(shown) <= MaxShows
    /\ message \in { "none", "No vocab entries found", "Exiting VocabPop." }
    /\ trigger \in { "start", "after_sig", "after_int", "signal", "signal_again",
                      "expiry" }

---------------------------------------------------------------------------
(* Properties *)

LoopPcs == { "loop_top", "top_recv", "show_sig", "adv_sig", "show_int",
             "adv_int", "wait_check", "wait_recv", "sleep", "stopped" }

\* C1: without --force, the k-th notification shown (counting from 0) is
\* entry k mod N of the sequence, whatever mix of signals and ticks led to
\* it; so N consecutive shows display each entry once and the (k+N)-th show
\* is at the position of the k-th.
C1_StrictCursorOrder ==
    ~args.force =>
        LET N == Len(entries) IN
        /\ \A k \in 1..Len(shown) :
              /\ shown[k].pos = (k - 1) % N
              /\ shown[k].title = entries[((k - 1) % N) + 1].word
        /\ \A k \in 1..Len(shown) :
              k + N - 1 <= Len(shown) =>
                 { shown[j].pos : j \in k..(k + N - 1) } = 0..(N - 1)
        /\ \A k \in 1..Len(shown) :
              k + N <= Len(shown) => shown[k + N].pos = shown[k].pos

\* C1 witness: a rotation of the longest sequence that went once around,
\* with both a consumed signal and a wait that ran to its end behind it.
C1_Witness ==
    /\ ~args.force
    /\ Len(entries) = MaxEntries
    /\ Len(shown) > Len(entries)
    /\ consumed >= 1
    /\ expired >= 1

\* C2: signals coalesce: the sends made before one try_recv cause one early
\* show, so no show is ever triggered by a signal that try_recv returned
\* without a send since its previous Ok.
C2_SignalsCoalesce ==
    [][Len(shown') > Len(shown) => trigger # "signal_again"]_vars

\* C3: when running is set false while the scheduler is in its wait loop,
\* it sleeps at most one more tick, shows nothing more (even with a signal
\* queued) and can only go on to the loop top and stop.
C3_CancelInWait ==
    cancelAt \in WaitingPcs =>
        /\ ticksSinceCancel <= 1
        /\ showsSinceCancel = 0
        /\ pc \in WaitingPcs \cup { "loop_top", "stopped" }

\* C3 witness: cancelled during a sleep, stopped one tick later with a
\* signal still queued.
C3_Witness ==
    /\ cancelAt = "sleep"
    /\ pc = "stopped"
    /\ ticksSinceCancel = 1
    /\ rx > 0

\* C4: with --force and a non-empty sequence exactly one show is made, of
\* the entry at cursor 0, and main returns with it; the loop is never
\* entered, whatever running and the channel hold.
C4_ForceOnce ==
    args.force =>
        /\ pc \notin LoopPcs
        /\ Len(shown) <= 1
        /\ Len(shown) = 1 <=> (pc = "exited" /\ ~IsEmptyVec(entries))
        /\ Len(shown) = 1 =>
              /\ shown[1].pos = 0
              /\ shown[1].title = entries[1].word
              /\ message = "none"

\* C4 witness: the forced show was made with running false and a signal queued.
C4_Witness ==
    /\ args.force
    /\ pc = "exited"
    /\ Len(shown) = 1
    /\ ~running
    /\ rx > 0

\* C5: an empty vocabulary is reported and ends main at once: nothing is
\* shown, the loop is not entered and the cursor is never used.
C5_EmptyVocabulary ==
    (pc # "load" /\ Len(entries) = 0) =>
        /\ pc = "exited"
        /\ message = "No vocab entries found"
        /\ shown = << >>
        /\ idx = 0

\* C5 witness: main ended on an empty vocabulary with --force and --shuffle set.
C5_Witness ==
    /\ pc = "exited"
    /\ Len(entries) = 0
    /\ args.force
    /\ args.shuffle
    /\ message = "No vocab entries found"

\* The rule of the specification for the body, written from its words.
RuleBody(e) ==
    LET r == IF IsSome(e.reading) THEN Unwrap(e.reading) ELSE << >>
        m == IF IsSome(e.meaning)
             THEN (IF IsSome(e.reading) THEN << " ", "U+2014", " " >> ELSE << >>)
                  \o Unwrap(e.meaning)
             ELSE << >>
        c == IF IsSome(e.codes) /\ Unwrap(e.codes) # << >>
             THEN << " ", "(" >> \o Unwrap(e.codes) \o << ")" >>
             ELSE << >>
    IN  r \o m \o c

\* C6: every notification carries the word as its title and, as its body,
\* the reading, then the meaning (after " -- " exactly when there is a
\* reading), then " (codes)"; a bare word gives the empty body, reading and
\* meaning give reading -- meaning, meaning and codes without a reading give
\* meaning (codes) with no separator in front.
C6_FormatRule ==
    \A k \in 1..Len(shown) :
        LET e == entries[shown[k].pos + 1]
            body == shown[k].body
        IN  /\ shown[k].title = e.word
            /\ body = RuleBody(e)
            /\ (~IsSome(e.reading) /\ ~IsSome(e.meaning) /\ ~IsSome(e.codes))
                  => body = << >>
            /\ (IsSome(e.reading) /\ IsSome(e.meaning) /\ ~IsSome(e.codes))
                  => body = Unwrap(e.reading) \o << " ", "U+2014", " " >>
                            \o Unwrap(e.meaning)
            /\ (~IsSome(e.reading) /\ IsSome(e.meaning) /\ IsSome(e.codes))
                  => body = Unwrap(e.meaning) \o << " ", "(" >>
                            \o Unwrap(e.codes) \o << ")" >>

\* C6 witness: the interval path showed an entry with a meaning and codes
\* and no reading.
C6_Witness ==
    /\ pc = "adv_int"
    /\ Len(shown) = 1
    /\ ~IsSome(entries[1].reading)
    /\ IsSome(entries[1].meaning)
    /\ IsSome(entries[1].codes)
    /\ shown[1].body = << "m", "m", " ", "(", "c", ")" >>

\* C7: the loop stops, with the exit line printed, only once running is
\* false; running never goes back to true; and once running is false the
\* scheduler does stop.
C7_RunUntilCancelled ==
    /\ [](pc = "stopped" => (~running /\ message = "Exiting VocabPop."))
    /\ [][~running => ~running']_vars
    /\ ((~running /\ ~args.force /\ pc \in LivePcs) ~> (pc = "stopped"))

\* C7 witness: the scheduler stopped after a rotation of several shows.
C7_Witness ==
    /\ pc = "stopped"
    /\ ~args.force
    /\ Len(shown) >= 2
    /\ message = "Exiting VocabPop."

\* C8 as claimed: every show is followed by a wait, so that no show other
\* than the first is made unless a signal was taken or a wait ran to its end
\* since the show before it: two notifications never come back to back.
C8_WaitBetweenShows ==
    [][(Len(shown') > Len(shown) /\ ~args.force)
          => trigger \in { "start", "signal", "signal_again", "expiry" }]_vars

\* C8 as amended: a show of the interval branch is followed by a wait that
\* starts at slept = 0 and by no other show until a signal is taken or that
\* wait runs out; a show of the signal branch goes back to the loop top with
\* no wait, so the next show may follow it at once; and the shows made never
\* outnumber 1 + the signals taken + the waits that ran to their end.
C8_WaitAfterIntervalShow ==
    [][ /\ (pc = "adv_int" /\ pc' # pc) => (pc' = "wait_check" /\ slept' = 0)
        /\ (pc = "adv_sig" /\ pc' # pc) => pc' = "loop_top"
        /\ (Len(shown') > Len(shown) /\ ~args.force)
              => /\ trigger # "after_int"
                 /\ Len(shown') <= 1 + consumed + expired ]_vars

\* C8 witness: after a wait that ran out, a signal was taken at the loop top,
\* its show was made in the signal branch, and the loop is at the next show
\* with nothing in between.
C8_Witness ==
    /\ pc = "show_int"
    /\ trigger = "after_sig"
    /\ expired >= 1
    /\ Len(shown) >= 2
    /\ running

\* C9: once running is false no new cycle is started: at most one show is
\* made after the flip, and only when the flip came after the loop-top
\* check of that cycle; that show is followed by its cursor advance and the
\* scheduler then leaves for the loop top and stops.
C9_CooperativeCancel ==
    ~args.force =>
        /\ showsSinceCancel <= 1
        /\ showsSinceCancel = 1 => cancelAt \in { "top_recv", "show_sig", "show_int" }
        /\ (~running /\ pc = "top_recv") => cancelAt = "top_recv"
        /\ (~running /\ pc \in { "show_sig", "show_int" })
              => cancelAt \in { "top_recv", "show_sig", "show_int" }
        /\ pc = "stopped" => idx = Len(shown) % UsizeModulus

\* C9 witness: the flag flipped after the loop-top check, one show followed
\* and the scheduler stopped.
C9_Witness ==
    /\ ~args.force
    /\ pc = "stopped"
    /\ cancelAt = "top_recv"
    /\ showsSinceCancel = 1
    /\ Len(shown) >= 2

\* C10: a queued signal sees at most one sleep end before it is taken, and
\* once taken nothing but the loop-top check and the show (or the stop, when
\* running went false) follows: no sleep comes between.  While running stays
\* true (and the rotation is within MaxShows) a send is always followed by an
\* Ok of try_recv.
C10_SignalResponsive ==
    /\ [](/\ sigTicks <= 1
          /\ waited <= 1
          /\ trigger \in { "signal", "signal_again" }
                => pc \in { "loop_top", "top_recv", "show_sig", "show_int",
                            "stopped" })
    /\ ((fresh /\ ~args.force)
           ~> (~fresh \/ ~running \/ Len(shown) >= MaxShows))

\* C10 witness: a signal sent during a sleep was taken after that one tick
\* and its show was made, with running still true.
C10_Witness ==
    /\ waited = 1
    /\ consumed = 1
    /\ pc = "adv_int"
    /\ trigger = "after_int"
    /\ running

\* C11: a wait that runs out has slept exactly interval_minutes x 60 ticks of
\* one second, no more and no fewer, for every positive --interval: the tick
\* counter never passes that product and the wait is left as run out only
\* when the counter equals it.
C11_ExpiryTiming ==
    /\ slept <= args.interval * SecsPerMinute
    /\ (pc = "wait_check" /\ ~WaitMore) => slept = args.interval * SecsPerMinute

\* C12: the rotation stays cyclic when the usize cursor wraps around its
\* maximum: of any two consecutive shows, the second displays the entry that
\* follows the first one's in the sequence, (i + 1) mod N after i.
C12_CyclicAcrossWrap ==
    \A k \in 1..(Len(shown) - 1) :
        shown[k + 1].pos = (shown[k].pos + 1) % Len(entries)

\* C13: without --force, while running stays true and the main thread keeps
\* taking steps, the scheduler goes on showing: every run is one that ended
\* at once (--force, empty vocabulary), one that was cancelled, or one that
\* reaches any number of shows (here MaxShows), with or without signals; and
\* every N consecutive shows of it display every entry of the sequence, so
\* each entry keeps coming back.
C13_InfiniteRotation ==
    /\ <>(pc = "exited" \/ ~running \/ Len(shown) >= MaxShows)
    /\ [](~args.force =>
            \A k \in 0..Len(shown) : \A p \in 1..Len(entries) :
                k + Len(entries) <= Len(shown) =>
                    \E j \in (k + 1)..(k + Len(entries)) :
                        shown[j].title = entries[p].word)

\* C13 witness: a rotation that went on to MaxShows shows of the longest
\* sequence without any signal sent, running still true.
C13_Witness ==
    /\ ~args.force
    /\ running
    /\ Len(entries) = MaxEntries
    /\ Len(shown) = MaxShows
    /\ consumed = 0
    /\ rx = 0
    /\ ~fresh

\* What the loader's contract gives for one line: nothing for a blank line
\* or a line whose first non-whitespace character is '#'; otherwise the
\* fields between the tabs of the line, field 0 the word, 1 the reading,
\* 2 the meaning, 3 the codes, each stripped, a missing or blank optional
\* field absent, and no entry without a word.
ContractField(fields, i) ==
    IF i <= Len(fields) /\ Trim(fields[i]) # << >> THEN Some(Trim(fields[i])) ELSE None

ContractLine(raw) ==
    IF Trim(raw) = << >> \/ Head(TrimStart(raw)) = "#"
    THEN << >>
    ELSE LET fields == SplitOn(raw, "\t")
         IN  IF Trim(fields[1]) = << >>
             THEN << >>
             ELSE << [ word    |-> Trim(fields[1]),
                       reading |-> ContractField(fields, 2),
                       meaning |-> ContractField(fields, 3),
                       codes   |-> ContractField(fields, 4) ] >>

RECURSIVE ContractLines(_)
ContractLines(ls) ==
    IF ls = << >> THEN << >> ELSE ContractLine(Head(ls)) \o ContractLines(Tail(ls))

\* C14: every entry parsed has a non-empty word and optional fields that are
\* absent or non-empty stripped strings; blank lines and '#' lines give no
\* entry; and the fields are taken by position from the tab-separated line,
\* field 0 the word, 1 the reading, 2 the meaning, 3 the codes.
C14_LoaderOutput ==
    pc = "parsed" =>
        /\ \A k \in 1..Len(entries) :
              /\ entries[k].word # << >>
              /\ \A o \in { entries[k].reading, entries[k].meaning, entries[k].codes } :
                    IsSome(o) => (Unwrap(o) # << >> /\ Trim(Unwrap(o)) = Unwrap(o))
        /\ entries = ContractLines(Lines(file))

\* C15: whenever the scheduler is in its wait, the notifications shown so
\* far number 1 + the waits that ran to their end + the signals taken from
\* the channel: every signal taken and every wait run out was followed by
\* one show, and no show was made without one of them (but the first).
C15_ShowAccounting ==
    (~args.force /\ pc \in WaitingPcs) => Len(shown) = 1 + expired + consumed

\* C15 witness: in a wait, with the flag still true, after a wait that ran
\* out and two signals taken, one of them at the loop top.
C15_Witness ==
    /\ pc = "sleep"
    /\ running
    /\ expired = 1
    /\ consumed = 2
    /\ Len(shown) = 4
    /\ shown[2].pos # shown[3].pos

\* C16: a signal the scheduler has taken from the channel is always followed
\* by a show before the scheduler stops, also when running becomes false
\* right after the signal was taken: the scheduler never stops with a taken
\* signal that had no show.
C16_NoLostSignal ==
    pc = "stopped" => trigger \notin { "signal", "signal_again" }

\* C17: the three copies of the formatting code agree: for every Entry, the
\* (title, body) pair a path passed to show_notification is the pair each
\* of the force path, the signal path and the interval path builds for it.
C17_FormatCopiesAgree ==
    \A k \in 1..Len(shown) :
        LET e == entries[shown[k].pos + 1]
            p == [ title |-> shown[k].title, body |-> shown[k].body ]
        IN  /\ p = FormatForce(e)
            /\ p = FormatSignal(e)
            /\ p = FormatInterval(e)

\* C17 witness: the signal path showed an entry with a reading and a meaning
\* whose codes field holds the empty string.
C17_Witness ==
    /\ pc = "adv_sig"
    /\ Len(shown) = 1
    /\ entries[1].codes = Some(<< >>)
    /\ IsSome(entries[1].reading)
    /\ IsSome(entries[1].meaning)
    /\ shown[1].body = << "r", " ", "U+2014", " ", "m" >>

===========================================================================
